---- MODULE Spec2Model ----
(***************************************************************************)
(* ReentrantMutex<T> of remutex.rs: a lock that owns a value, a recursive  *)
(* platform primitive (sys::ReentrantMutex) and a poison flag              *)
(* (poison::Flag), and the guards its lock()/try_lock() hand out.          *)
(*                                                                         *)
(* Threads are preemptible, so every operation is split at the points      *)
(* where it touches shared state: lock() is inner.lock() then              *)
(* ReentrantMutexGuard::new; try_lock() is inner.try_lock() then           *)
(* ReentrantMutexGuard::new; a guard's drop is poison.done then            *)
(* inner.unlock.  pc[t] is the position of thread t.                       *)
(*                                                                         *)
(* sys::ReentrantMutex and poison::Flag are crate modules whose code is    *)
(* not part of remutex.rs; they are modelled from the interface the        *)
(* specification gives them (sections 4.2 and 6).                          *)
(***************************************************************************)
EXTENDS Integers, Sequences, FiniteSets, TLC

\* ---------------------------------------------------------------- bounds
NumThreads == 2
MaxDepth == 2

Threads == 1..NumThreads
NoThread == 0
\* the values test::poison_works stores: the initial 0 and Answer's 42
Values == {0, 42}

VARIABLES
    owner,       \* sys::ReentrantMutex: the thread holding the primitive, or NoThread
    depth,       \* sys::ReentrantMutex: the owner's reentrancy depth
    failed,      \* poison::Flag: TRUE once poisoned
    data,        \* ReentrantMutex.data
    pc,          \* pc[t]: where thread t is
    ctx,         \* ctx[t]: "fmt" while t is inside Debug::fmt, else "user"
    guards,      \* guards[t]: the live guards of thread t, oldest first
    self,        \* self[t]: the guard whose drop() thread t is running (<<>> if none)
    panicking,   \* panicking[t]: thread t is unwinding (thread::panicking())
    ret,         \* ret[t]: what the last call of t returned ("none" while it runs)
    heldAtPanic, \* history: t held at least one live guard when it panicked
    outerUnwound \* history: some outermost guard was dropped by an unwinding thread

vars == <<owner, depth, failed, data, pc, ctx, guards, self, panicking, ret,
          heldAtPanic, outerUnwound>>

\* ------------------------------------------------ sys::ReentrantMutex
\* blocking_acquire / try_acquire succeed for the owner and on a free primitive
SysCanLock(t) == owner = NoThread \/ owner = t

SysAcquire(t) ==
    /\ owner' = t
    /\ depth' = depth + 1

\* release: the depth goes down; at zero the primitive is free again.
\* A release by a thread that does not own the primitive fails and changes nothing.
SysUnlock(t) ==
    IF owner = t /\ depth > 0
    THEN /\ depth' = depth - 1
         /\ owner' = IF depth = 1 THEN NoThread ELSE owner
    ELSE UNCHANGED <<owner, depth>>

\* ------------------------------------------------------- poison::Flag
\* begin_critical_section: the token, and whether the flag is poisoned
PoisonBorrow == [token |-> "token", poisoned |-> failed]

\* a flag that every critical section ended normally sets back to clean
PoisonDoneClears(t) == failed' = panicking[t]

\* end_critical_section: an unwinding thread poisons the flag; otherwise it stays
PoisonDone(t) == failed' = (failed \/ panicking[t])

\* --------------------------------------------------------------- guards
\* nth: the place of the guard among the live guards of its thread when it was
\* built (1 for an outermost guard); wrap: Ok or Poisoned, as it was returned
Guard(tok, w, n) == [__lock |-> "mutex", __poison |-> tok, wrap |-> w, nth |-> n]

RemoveAt(s, i) == SubSeq(s, 1, i - 1) \o SubSeq(s, i + 1, Len(s))

\* the guards of t that have been constructed and whose drop has not finished
LiveGuards(t) == Len(guards[t]) + Len(self[t])

\* where a call returns to: into fmt's match, or to the thread's own code
Back(t) == IF ctx[t] = "fmt" THEN "fmt_write" ELSE "idle"

\* ----------------------------------------------------------------- Init
Init ==
    /\ owner = NoThread
    /\ depth = 0
    /\ failed = FALSE
    /\ data \in Values
    /\ pc = [t \in Threads |-> "idle"]
    /\ ctx = [t \in Threads |-> "user"]
    /\ guards = [t \in Threads |-> <<>>]
    /\ self = [t \in Threads |-> <<>>]
    /\ panicking = [t \in Threads |-> FALSE]
    /\ ret = [t \in Threads |-> "none"]
    /\ heldAtPanic = [t \in Threads |-> FALSE]
    /\ outerUnwound = FALSE

\* ------------------------------------------------------------- lock()
\* thread t calls lock()
Lock(t) ==
    /\ pc[t] = "idle"
    /\ ~panicking[t]
    /\ LiveGuards(t) < MaxDepth
    /\ pc' = [pc EXCEPT ![t] = "lock"]
    /\ ret' = [ret EXCEPT ![t] = "none"]
    /\ UNCHANGED <<owner, depth, failed, data, ctx, guards, self, panicking,
                   heldAtPanic, outerUnwound>>

\* a lock() over a primitive that is not recursive: the owner waits for itself
LockInnerNotReentrant(t) ==
    /\ pc[t] = "lock"
    /\ owner = NoThread
    /\ SysAcquire(t)
    /\ pc' = [pc EXCEPT ![t] = "lock_new"]
    /\ UNCHANGED <<failed, data, ctx, guards, self, panicking, ret,
                   heldAtPanic, outerUnwound>>

\* a lock() that builds its guard without acquiring the primitive
LockInnerNoAcquire(t) ==
    /\ pc[t] = "lock"
    /\ pc' = [pc EXCEPT ![t] = "lock_new"]
    /\ UNCHANGED <<owner, depth, failed, data, ctx, guards, self, panicking, ret,
                   heldAtPanic, outerUnwound>>

\* unsafe { self.inner.lock() }: waits until the primitive can be acquired
LockInner(t) ==
    /\ pc[t] = "lock"
    /\ SysCanLock(t)
    /\ SysAcquire(t)
    /\ pc' = [pc EXCEPT ![t] = "lock_new"]
    /\ UNCHANGED <<failed, data, ctx, guards, self, panicking, ret,
                   heldAtPanic, outerUnwound>>

\* --------------------------------------------------------- try_lock()
\* thread t calls try_lock()
TryLock(t) ==
    /\ pc[t] = "idle"
    /\ ~panicking[t]
    /\ LiveGuards(t) < MaxDepth
    /\ pc' = [pc EXCEPT ![t] = "try"]
    /\ ret' = [ret EXCEPT ![t] = "none"]
    /\ UNCHANGED <<owner, depth, failed, data, ctx, guards, self, panicking,
                   heldAtPanic, outerUnwound>>

\* a try_lock that builds a guard whatever inner.try_lock() answered
TryLockInnerIgnoringResult(t) ==
    /\ pc[t] = "try"
    /\ IF SysCanLock(t) THEN SysAcquire(t) ELSE UNCHANGED <<owner, depth>>
    /\ pc' = [pc EXCEPT ![t] = "try_new"]
    /\ UNCHANGED <<failed, data, ctx, guards, self, panicking, ret,
                   heldAtPanic, outerUnwound>>

\* a try_lock that answers WouldBlock whenever the primitive is held, by the
\* caller too
TryLockInnerNotReentrant(t) ==
    /\ pc[t] = "try"
    /\ IF owner = NoThread
       THEN /\ SysAcquire(t)
            /\ pc' = [pc EXCEPT ![t] = "try_new"]
            /\ UNCHANGED ret
       ELSE /\ UNCHANGED <<owner, depth>>
            /\ ret' = [ret EXCEPT ![t] = "WouldBlock"]
            /\ pc' = [pc EXCEPT ![t] = Back(t)]
    /\ UNCHANGED <<failed, data, ctx, guards, self, panicking,
                   heldAtPanic, outerUnwound>>

\* a try_lock that waits for the primitive as lock() does
TryLockInnerBlocking(t) ==
    /\ pc[t] = "try"
    /\ SysCanLock(t)
    /\ SysAcquire(t)
    /\ pc' = [pc EXCEPT ![t] = "try_new"]
    /\ UNCHANGED <<failed, data, ctx, guards, self, panicking, ret,
                   heldAtPanic, outerUnwound>>

\* if unsafe { self.inner.try_lock() } { ... } else { Err(WouldBlock) }
TryLockInner(t) ==
    /\ pc[t] = "try"
    /\ IF SysCanLock(t)
       THEN /\ SysAcquire(t)
            /\ pc' = [pc EXCEPT ![t] = "try_new"]
            /\ UNCHANGED ret
       ELSE /\ UNCHANGED <<owner, depth>>
            /\ ret' = [ret EXCEPT ![t] = "WouldBlock"]
            /\ pc' = [pc EXCEPT ![t] = Back(t)]
    /\ UNCHANGED <<failed, data, ctx, guards, self, panicking,
                   heldAtPanic, outerUnwound>>

\* ------------------------------------------- ReentrantMutexGuard::new
\* a guard constructor that hands out no guard when the flag is poisoned
GuardNewNoGuardOnPoison(t) ==
    /\ pc[t] \in {"lock_new", "try_new"}
    /\ LET b == PoisonBorrow IN
        /\ guards' = IF b.poisoned THEN guards
                     ELSE [guards EXCEPT ![t] = Append(@, Guard(b.token, "Ok", Len(guards[t]) + 1))]
        /\ ret' = [ret EXCEPT ![t] = IF b.poisoned THEN "Poisoned" ELSE "Ok"]
    /\ pc' = [pc EXCEPT ![t] = Back(t)]
    /\ UNCHANGED <<owner, depth, failed, data, ctx, self, panicking,
                   heldAtPanic, outerUnwound>>

\* a guard constructor that never looks at the poison flag
GuardNewNoPoisonCheck(t) ==
    /\ pc[t] \in {"lock_new", "try_new"}
    /\ guards' = [guards EXCEPT ![t] = Append(@, Guard(PoisonBorrow.token, "Ok", Len(guards[t]) + 1))]
    /\ ret' = [ret EXCEPT ![t] = "Ok"]
    /\ pc' = [pc EXCEPT ![t] = Back(t)]
    /\ UNCHANGED <<owner, depth, failed, data, ctx, self, panicking,
                   heldAtPanic, outerUnwound>>

\* a guard constructor that puts the initial value back when the lock is poisoned
GuardNewResetsValueOnPoison(t) ==
    /\ pc[t] \in {"lock_new", "try_new"}
    /\ LET b == PoisonBorrow
           w == IF b.poisoned THEN "Poisoned" ELSE "Ok"
       IN  /\ guards' = [guards EXCEPT ![t] = Append(@, Guard(b.token, w, Len(guards[t]) + 1))]
           /\ ret' = [ret EXCEPT ![t] = w]
           /\ data' = IF b.poisoned THEN 0 ELSE data
    /\ pc' = [pc EXCEPT ![t] = Back(t)]
    /\ UNCHANGED <<owner, depth, failed, ctx, self, panicking,
                   heldAtPanic, outerUnwound>>

\* poison::map_result(lock.poison.borrow(), |guard| ReentrantMutexGuard {..}):
\* the guard is built in both cases, inside Ok or inside the PoisonError
GuardNew(t) ==
    /\ pc[t] \in {"lock_new", "try_new"}
    /\ LET b == PoisonBorrow
           w == IF b.poisoned THEN "Poisoned" ELSE "Ok"
       IN  /\ guards' = [guards EXCEPT ![t] = Append(@, Guard(b.token, w, Len(guards[t]) + 1))]
           /\ ret' = [ret EXCEPT ![t] = w]
    /\ pc' = [pc EXCEPT ![t] = Back(t)]
    /\ UNCHANGED <<owner, depth, failed, data, ctx, self, panicking,
                   heldAtPanic, outerUnwound>>

\* ------------------------------------------- ReentrantMutexGuard::drop
\* guard i of thread t goes out of scope (or is passed to drop()): its drop() starts
BeginDrop(t, i) ==
    /\ self' = [self EXCEPT ![t] = <<guards[t][i]>>]
    /\ guards' = [guards EXCEPT ![t] = RemoveAt(@, i)]
    /\ outerUnwound' = (outerUnwound \/ (panicking[t] /\ LiveGuards(t) = 1))
    /\ pc' = [pc EXCEPT ![t] = "drop_done"]

DropGuard(t, i) ==
    /\ pc[t] = "idle"
    /\ i \in 1..Len(guards[t])
    /\ BeginDrop(t, i)
    /\ UNCHANGED <<owner, depth, failed, data, ctx, panicking, ret, heldAtPanic>>

\* a drop that releases the primitive first and reports to the poison flag afterwards
GuardDropUnlockFirst(t) ==
    \/ /\ pc[t] = "drop_done"
       /\ SysUnlock(t)
       /\ pc' = [pc EXCEPT ![t] = "drop_unlock"]
       /\ UNCHANGED <<failed, data, ctx, guards, self, panicking, ret,
                      heldAtPanic, outerUnwound>>
    \/ /\ pc[t] = "drop_unlock"
       /\ PoisonDone(t)
       /\ self' = [self EXCEPT ![t] = <<>>]
       /\ pc' = [pc EXCEPT ![t] = "idle"]
       /\ ctx' = [ctx EXCEPT ![t] = "user"]
       /\ UNCHANGED <<owner, depth, data, guards, panicking, ret,
                      heldAtPanic, outerUnwound>>

\* a drop that leaves the primitive locked when the thread is unwinding
GuardDropNoUnlockOnPanic(t) ==
    \/ /\ pc[t] = "drop_done"
       /\ PoisonDone(t)
       /\ pc' = [pc EXCEPT ![t] = "drop_unlock"]
       /\ UNCHANGED <<owner, depth, data, ctx, guards, self, panicking, ret,
                      heldAtPanic, outerUnwound>>
    \/ /\ pc[t] = "drop_unlock"
       /\ IF panicking[t] THEN UNCHANGED <<owner, depth>> ELSE SysUnlock(t)
       /\ self' = [self EXCEPT ![t] = <<>>]
       /\ pc' = [pc EXCEPT ![t] = "idle"]
       /\ ctx' = [ctx EXCEPT ![t] = "user"]
       /\ UNCHANGED <<failed, data, guards, panicking, ret,
                      heldAtPanic, outerUnwound>>

\* a drop that reports to the poison flag for the outermost guard only
GuardDropDoneOnlyOutermost(t) ==
    \/ /\ pc[t] = "drop_done"
       /\ IF depth = 1 THEN PoisonDone(t) ELSE UNCHANGED failed
       /\ pc' = [pc EXCEPT ![t] = "drop_unlock"]
       /\ UNCHANGED <<owner, depth, data, ctx, guards, self, panicking, ret,
                      heldAtPanic, outerUnwound>>
    \/ /\ pc[t] = "drop_unlock"
       /\ SysUnlock(t)
       /\ self' = [self EXCEPT ![t] = <<>>]
       /\ pc' = [pc EXCEPT ![t] = "idle"]
       /\ ctx' = [ctx EXCEPT ![t] = "user"]
       /\ UNCHANGED <<failed, data, guards, panicking, ret,
                      heldAtPanic, outerUnwound>>

\* a drop that marks the lock poisoned whether or not the thread is unwinding
GuardDropAlwaysPoisons(t) ==
    \/ /\ pc[t] = "drop_done"
       /\ failed' = TRUE
       /\ pc' = [pc EXCEPT ![t] = "drop_unlock"]
       /\ UNCHANGED <<owner, depth, data, ctx, guards, self, panicking, ret,
                      heldAtPanic, outerUnwound>>
    \/ /\ pc[t] = "drop_unlock"
       /\ SysUnlock(t)
       /\ self' = [self EXCEPT ![t] = <<>>]
       /\ pc' = [pc EXCEPT ![t] = "idle"]
       /\ ctx' = [ctx EXCEPT ![t] = "user"]
       /\ UNCHANGED <<failed, data, guards, panicking, ret,
                      heldAtPanic, outerUnwound>>

\* a drop that releases the primitive twice
GuardDropUnlockTwice(t) ==
    \/ /\ pc[t] = "drop_done"
       /\ PoisonDone(t)
       /\ pc' = [pc EXCEPT ![t] = "drop_unlock"]
       /\ UNCHANGED <<owner, depth, data, ctx, guards, self, panicking, ret,
                      heldAtPanic, outerUnwound>>
    \/ /\ pc[t] = "drop_unlock"
       /\ IF owner = t /\ depth > 0
          THEN /\ depth' = IF depth >= 2 THEN depth - 2 ELSE 0
               /\ owner' = IF depth <= 2 THEN NoThread ELSE owner
          ELSE UNCHANGED <<owner, depth>>
       /\ self' = [self EXCEPT ![t] = <<>>]
       /\ pc' = [pc EXCEPT ![t] = "idle"]
       /\ ctx' = [ctx EXCEPT ![t] = "user"]
       /\ UNCHANGED <<failed, data, guards, panicking, ret,
                      heldAtPanic, outerUnwound>>

\* a drop that takes the outermost guard to be the last one dropped: its drop
\* frees the primitive whatever the depth
GuardDropAssumesLifo(t) ==
    \/ /\ pc[t] = "drop_done"
       /\ PoisonDone(t)
       /\ pc' = [pc EXCEPT ![t] = "drop_unlock"]
       /\ UNCHANGED <<owner, depth, data, ctx, guards, self, panicking, ret,
                      heldAtPanic, outerUnwound>>
    \/ /\ pc[t] = "drop_unlock"
       /\ IF self[t][1].nth = 1
          THEN owner' = NoThread /\ depth' = 0
          ELSE SysUnlock(t)
       /\ self' = [self EXCEPT ![t] = <<>>]
       /\ pc' = [pc EXCEPT ![t] = "idle"]
       /\ ctx' = [ctx EXCEPT ![t] = "user"]
       /\ UNCHANGED <<failed, data, guards, panicking, ret,
                      heldAtPanic, outerUnwound>>

\* fn drop(&mut self): self.__lock.poison.done(&self.__poison), then
\* self.__lock.inner.unlock()
GuardDrop(t) ==
    \/ /\ pc[t] = "drop_done"
       /\ PoisonDone(t)
       /\ pc' = [pc EXCEPT ![t] = "drop_unlock"]
       /\ UNCHANGED <<owner, depth, data, ctx, guards, self, panicking, ret,
                      heldAtPanic, outerUnwound>>
    \/ /\ pc[t] = "drop_unlock"
       /\ SysUnlock(t)
       /\ self' = [self EXCEPT ![t] = <<>>]
       /\ pc' = [pc EXCEPT ![t] = "idle"]
       /\ ctx' = [ctx EXCEPT ![t] = "user"]
       /\ UNCHANGED <<failed, data, guards, panicking, ret,
                      heldAtPanic, outerUnwound>>

\* ---------------------------------------------------------------- deref
\* *guard.borrow_mut() = v: a write of the value through a live guard
Write(t, v) ==
    /\ pc[t] = "idle"
    /\ Len(guards[t]) > 0
    /\ data' = v
    /\ UNCHANGED <<owner, depth, failed, pc, ctx, guards, self, panicking, ret,
                   heldAtPanic, outerUnwound>>

\* ----------------------------------------------------------- Debug::fmt
\* thread t formats the lock: match self.try_lock() { ... }
Fmt(t) ==
    /\ pc[t] = "idle"
    /\ ~panicking[t]
    /\ LiveGuards(t) < MaxDepth
    /\ pc' = [pc EXCEPT ![t] = "try"]
    /\ ctx' = [ctx EXCEPT ![t] = "fmt"]
    /\ ret' = [ret EXCEPT ![t] = "none"]
    /\ UNCHANGED <<owner, depth, failed, data, guards, self, panicking,
                   heldAtPanic, outerUnwound>>

FmtForm(r) ==
    CASE r = "Ok" -> "fmt_data"
      [] r = "Poisoned" -> "fmt_poisoned"
      [] r = "WouldBlock" -> "fmt_locked"

\* a formatter that keeps the guard try_lock() gave it: the arm writes its form
\* and returns with the guard still alive
FmtWriteKeepsGuard(t) ==
    /\ pc[t] = "fmt_write"
    /\ ret' = [ret EXCEPT ![t] = FmtForm(ret[t])]
    /\ pc' = [pc EXCEPT ![t] = "idle"]
    /\ ctx' = [ctx EXCEPT ![t] = "user"]
    /\ UNCHANGED <<owner, depth, failed, data, guards, self, panicking,
                   heldAtPanic, outerUnwound>>

\* the arm of the match writes its form; the guard it was given (if any) is
\* dropped at the end of the arm
FmtWrite(t) ==
    /\ pc[t] = "fmt_write"
    /\ ret' = [ret EXCEPT ![t] = FmtForm(ret[t])]
    /\ IF ret[t] = "WouldBlock"
       THEN /\ pc' = [pc EXCEPT ![t] = "idle"]
            /\ ctx' = [ctx EXCEPT ![t] = "user"]
            /\ UNCHANGED <<guards, self, outerUnwound>>
       ELSE /\ BeginDrop(t, Len(guards[t]))
            /\ UNCHANGED ctx
    /\ UNCHANGED <<owner, depth, failed, data, panicking, heldAtPanic>>

\* ------------------------------------------------- panics (test::poison_works)
\* thread t panics and starts to unwind.  As in test::poison_works, an unwinding
\* thread runs destructors only: it drops its guards, a destructor may write the
\* value through a guard it holds (Answer), and then the thread is gone; it
\* makes no new call of lock(), try_lock() or fmt().
Panic(t) ==
    /\ pc[t] = "idle"
    /\ ~panicking[t]
    /\ panicking' = [panicking EXCEPT ![t] = TRUE]
    /\ heldAtPanic' = [heldAtPanic EXCEPT ![t] = (LiveGuards(t) >= 1)]
    /\ UNCHANGED <<owner, depth, failed, data, pc, ctx, guards, self, ret,
                   outerUnwound>>

\* the unwinding of t is stopped (a catch_unwind frame below the panic): the
\* guards t still holds stay alive and t runs on as a thread that is not unwinding
CatchUnwind(t) ==
    /\ pc[t] = "idle"
    /\ panicking[t]
    /\ panicking' = [panicking EXCEPT ![t] = FALSE]
    /\ heldAtPanic' = [heldAtPanic EXCEPT ![t] = FALSE]
    /\ UNCHANGED <<owner, depth, failed, data, pc, ctx, guards, self, ret,
                   outerUnwound>>

\* the unwinding has dropped every guard of t: the thread is gone
Terminate(t) ==
    /\ pc[t] = "idle"
    /\ panicking[t]
    /\ guards[t] = <<>>
    /\ pc' = [pc EXCEPT ![t] = "dead"]
    /\ ret' = [ret EXCEPT ![t] = "none"]
    /\ UNCHANGED <<owner, depth, failed, data, ctx, guards, self, panicking,
                   heldAtPanic, outerUnwound>>

\* ------------------------------------------------------------------ Next
ThreadStep(t) ==
    \/ Lock(t)
    \/ LockInner(t)
    \/ TryLock(t)
    \/ TryLockInner(t)
    \/ GuardNew(t)
    \/ \E i \in 1..MaxDepth : DropGuard(t, i)
    \/ GuardDrop(t)
    \/ \E v \in Values : Write(t, v)
    \/ Fmt(t)
    \/ FmtWrite(t)
    \/ Panic(t)
    \/ CatchUnwind(t)
    \/ Terminate(t)

Next == \E t \in Threads : ThreadStep(t)

Spec == Init /\ [][Next]_vars

\* The steps a thread takes inside a call it has made: the scheduler runs every
\* thread that stays able to run.  What a thread's own code chooses to call, and
\* which of several waiting threads the primitive serves, is left open.
Internal(t) ==
    \/ LockInner(t)
    \/ TryLockInner(t)
    \/ GuardNew(t)
    \/ GuardDrop(t)
    \/ FmtWrite(t)

FairSpec == Spec /\ \A t \in Threads : WF_vars(Internal(t))

\* the step of thread t that leaves position p
Leaves(t, p) == pc[t] = p /\ pc'[t] # p

\* thread t completes an acquisition: ReentrantMutexGuard::new returns
Acquires(t) == pc[t] \in {"lock_new", "try_new"} /\ pc'[t] # pc[t]

\* ================================================================ claims

\* C1: mutual exclusion. In every reachable state all live guards of the lock
\* belong to one thread: two distinct threads never both hold a live guard.
MutualExclusion ==
    \A t, u \in Threads : t # u => ~(LiveGuards(t) > 0 /\ LiveGuards(u) > 0)

\* a thread holds nested guards while another thread is inside lock()
MutualExclusionWitness ==
    \E t, u \in Threads : t # u /\ Len(guards[t]) >= 2 /\ pc[u] = "lock"

\* C2: reentrancy. A thread that holds a live guard and calls lock() or
\* try_lock() can always take its step (it never waits), the step acquires the
\* primitive, and the call then returns a guard: inside Ok, or inside Poisoned
\* exactly when the lock is already poisoned.
Reentrancy ==
    [][\A t \in Threads :
        /\ (Len(guards[t]) >= 1 /\ pc[t] = "lock") =>
              /\ ENABLED LockInner(t)
              /\ (Leaves(t, "lock") => pc'[t] = "lock_new" /\ depth' = depth + 1)
        /\ (Len(guards[t]) >= 1 /\ pc[t] = "try") =>
              /\ ENABLED TryLockInner(t)
              /\ (Leaves(t, "try") => pc'[t] = "try_new" /\ depth' = depth + 1)
        /\ (Len(guards[t]) >= 1 /\ Acquires(t)) =>
              /\ Len(guards'[t]) = Len(guards[t]) + 1
              /\ ret'[t] = IF failed THEN "Poisoned" ELSE "Ok"
      ]_vars

\* a thread holds two nested guards, the second one just returned to its code
ReentrancyWitness ==
    \E t \in Threads :
        /\ pc[t] = "idle" /\ ctx[t] = "user"
        /\ Len(guards[t]) >= 2
        /\ ret[t] \in {"Ok", "Poisoned"}

\* C3: try_lock() returns WouldBlock exactly when another thread holds the lock,
\* and then creates no guard and leaves owner, depth and poison flag as they
\* are; otherwise it acquires the primitive and returns a guard.
TryLockWouldBlock ==
    [][\A t \in Threads :
        /\ Leaves(t, "try") =>
              IF owner \notin {NoThread, t}
              THEN /\ ret'[t] = "WouldBlock"
                   /\ pc'[t] = Back(t)
                   /\ UNCHANGED <<owner, depth, failed, guards, self>>
              ELSE /\ pc'[t] = "try_new"
                   /\ ret'[t] # "WouldBlock"
                   /\ owner' = t
                   /\ depth' = depth + 1
        /\ Leaves(t, "try_new") =>
              /\ Len(guards'[t]) = Len(guards[t]) + 1
              /\ ret'[t] \in {"Ok", "Poisoned"}
      ]_vars

\* a try_lock() returned WouldBlock to a thread while another thread holds the lock
TryLockWouldBlockWitness ==
    \E t \in Threads :
        /\ pc[t] = "idle" /\ ret[t] = "WouldBlock"
        /\ owner \notin {NoThread, t}

\* C4: poison propagation. Once the outermost guard of a thread has been dropped
\* while that thread was unwinding, every acquisition that completes (lock(),
\* or a try_lock() that is not WouldBlock), on any thread, returns Poisoned.
PoisonPropagation ==
    [][\A t \in Threads :
        (outerUnwound /\ Acquires(t)) =>
            /\ ret'[t] = "Poisoned"
            /\ guards'[t][Len(guards'[t])].wrap = "Poisoned"
      ]_vars

\* after an unwinding thread dropped its outermost guard, a thread that is not
\* unwinding holds a guard it got inside Poisoned
PoisonPropagationWitness ==
    /\ outerUnwound
    /\ \E t \in Threads :
        /\ ~panicking[t] /\ pc[t] = "idle"
        /\ ret[t] = "Poisoned" /\ Len(guards[t]) >= 1

\* C5: a Poisoned result is an acquisition. When lock()/try_lock() returns
\* Poisoned the caller owns the primitive, its depth counts the new guard, and
\* the error carries a live guard; dropping that guard lowers the depth by one
\* and frees the primitive at zero, as for a guard returned in Ok.
PoisonedIsAcquisition ==
    [][\A t \in Threads :
        /\ (Acquires(t) /\ ret'[t] = "Poisoned") =>
              /\ owner' = t
              /\ LiveGuards(t)' = LiveGuards(t) + 1
              /\ depth' = LiveGuards(t)'
              /\ guards'[t][Len(guards'[t])].wrap = "Poisoned"
        /\ (Leaves(t, "drop_unlock") /\ self[t][1].wrap = "Poisoned") =>
              /\ depth' = depth - 1
              /\ depth' = LiveGuards(t)'
              /\ owner' = IF depth = 1 THEN NoThread ELSE t
      ]_vars

\* the drop of a guard that was returned inside Poisoned is about to release
\* the primitive
PoisonedIsAcquisitionWitness ==
    \E t \in Threads :
        /\ pc[t] = "drop_unlock"
        /\ self[t][1].wrap = "Poisoned"
        /\ owner = t

\* C6: the poison bit is sticky. No step of lock(), try_lock(), a guard drop
\* (unwinding or not) or Debug formatting takes the flag from poisoned to clean.
PoisonSticky == [][failed => failed']_vars

\* on a poisoned lock, a thread that is not unwinding has acquired (Poisoned,
\* or the poisoned form of Debug) and has dropped its guard again
PoisonStickyWitness ==
    /\ failed
    /\ \E t \in Threads :
        /\ ~panicking[t] /\ pc[t] = "idle"
        /\ ret[t] \in {"Poisoned", "fmt_poisoned"}
        /\ guards[t] = <<>>
        /\ owner = NoThread

\* C7: release on every exit path. A thread that panicked while holding guards
\* and has terminated holds no guard and does not own the primitive, and the
\* lock is poisoned; a free primitive has depth 0 and lets every thread waiting
\* in lock() proceed, so nobody waits for a thread that is gone.
ReleaseOnPanic ==
    /\ \A t \in Threads :
        (pc[t] = "dead" /\ heldAtPanic[t]) =>
            /\ LiveGuards(t) = 0
            /\ owner # t
            /\ failed
    /\ (owner = NoThread) <=> (depth = 0)
    /\ \A u \in Threads :
        (pc[u] = "lock" /\ owner = NoThread) => ENABLED LockInner(u)
    /\ \A u \in Threads :
        (owner = u) => pc[u] # "dead"

\* a thread that panicked holding a guard is gone, and another thread has
\* acquired the lock since: it holds a guard it got inside Poisoned
ReleaseOnPanicWitness ==
    \E t, u \in Threads :
        /\ pc[t] = "dead" /\ heldAtPanic[t]
        /\ pc[u] = "idle" /\ ret[u] = "Poisoned"
        /\ Len(guards[u]) >= 1 /\ owner = u

\* a thread waiting in lock() for a primitive another thread owns
Blocked(t) == pc[t] = "lock" /\ ~ENABLED LockInner(t)

TryLockNeverBlocks ==
    [][\A t \in Threads :
        /\ pc[t] = "try" => ENABLED TryLockInner(t)
        /\ pc[t] = "try_new" => ENABLED GuardNew(t)
        /\ Leaves(t, "try") => pc'[t] = "try_new" \/ ret'[t] = "WouldBlock"
        /\ Leaves(t, "try_new") => ret'[t] \in {"Ok", "Poisoned"}
      ]_vars

\* a thread is inside try_lock() while another thread holds a poisoned lock
TryLockNeverBlocksWitness ==
    \E t \in Threads :
        /\ pc[t] = "try"
        /\ owner \notin {NoThread, t}
        /\ failed

\* C10: ordering inside the drop. The poison flag is written only by the thread
\* that owns the primitive, before it releases it, and read only by a thread
\* that has acquired the primitive; so when an unwinding thread releases the
\* primitive, the flag is already poisoned for whoever acquires next.
PoisonOrdering ==
    [][/\ (failed' # failed) =>
            /\ owner # NoThread
            /\ owner' = owner
            /\ pc[owner] = "drop_done"
       /\ \A t \in Threads :
            /\ Acquires(t) => owner = t
            /\ (Leaves(t, "drop_done") \/ Leaves(t, "drop_unlock")) => owner = t
            /\ (owner = t /\ owner' # t /\ panicking[t]) => failed
      ]_vars

\* an unwinding thread, the flag already poisoned, is about to release the
\* primitive for good while another thread waits in lock()
PoisonOrderingWitness ==
    \E t, u \in Threads :
        /\ t # u
        /\ pc[t] = "drop_unlock" /\ panicking[t] /\ depth = 1 /\ failed
        /\ pc[u] = "lock"

\* C11 as stated (poison isolation): a guard dropped while the owner's depth is
\* above 1 only lowers the depth and leaves the poison flag as it is, also when
\* the thread is unwinding; the flag changes at the drop of an outermost guard
\* only.
PoisonIsolation ==
    [][\A t \in Threads :
        /\ (Leaves(t, "drop_done") /\ depth > 1) => failed' = failed
        /\ (Leaves(t, "drop_unlock") /\ depth > 1) =>
              /\ depth' = depth - 1
              /\ owner' = owner
              /\ failed' = failed
      ]_vars

\* C11, amended: a guard dropped while the owner's depth is above 1 lowers the
\* depth by one and keeps the owner; its drop reports to the poison flag like
\* any other, so it leaves the flag unchanged when the thread is not unwinding
\* and poisons the lock when the thread is unwinding, whatever happens to the
\* outermost guard later.
PoisonAtAnyDepth ==
    [][\A t \in Threads :
        /\ Leaves(t, "drop_done") =>
              /\ failed' = (failed \/ panicking[t])
              /\ UNCHANGED <<owner, depth>>
        /\ (Leaves(t, "drop_unlock") /\ depth > 1) =>
              /\ depth' = depth - 1
              /\ owner' = owner
              /\ failed' = failed
      ]_vars

\* the lock is poisoned although no outermost guard was ever dropped by an
\* unwinding thread: a thread whose unwinding was stopped still holds its
\* outer guard, got in Ok, and is not unwinding
PoisonAtAnyDepthWitness ==
    /\ failed
    /\ ~outerUnwound
    /\ \E t \in Threads :
        /\ pc[t] = "idle" /\ ~panicking[t]
        /\ owner = t /\ depth = 1
        /\ Len(guards[t]) = 1 /\ guards[t][1].wrap = "Ok"

\* C12: no spurious poisoning. The flag goes from clean to poisoned only in the
\* poison.done of a guard dropped by an unwinding thread; the drop of a guard by
\* a thread that is not unwinding leaves the flag as it is; and an acquisition
\* on a clean lock returns Ok, never Poisoned.  (The lock starts clean, so as
\* long as no unwinding thread drops a guard every acquisition returns Ok.)
NoSpuriousPoison ==
    [][/\ (~failed /\ failed') =>
            \E t \in Threads : Leaves(t, "drop_done") /\ panicking[t]
       /\ \A t \in Threads :
            /\ (Leaves(t, "drop_done") /\ ~panicking[t]) => failed' = failed
            /\ (Leaves(t, "drop_unlock")) => failed' = failed
            /\ (Acquires(t) /\ ~failed) =>
                  /\ ret'[t] = "Ok"
                  /\ guards'[t][Len(guards'[t])].wrap = "Ok"
      ]_vars

\* a thread has panicked and is gone without having held a guard; the lock is
\* still clean while another thread, not unwinding, finishes the drop of a guard
NoSpuriousPoisonWitness ==
    /\ ~failed
    /\ \E t, u \in Threads :
        /\ pc[u] = "dead"
        /\ pc[t] = "drop_unlock" /\ ~panicking[t]
        /\ self[t][1].wrap = "Ok"

\* 1 while t is inside lock()/try_lock() between inner.lock()/inner.try_lock()
\* and ReentrantMutexGuard::new: the primitive is acquired, the guard not built
InFlight(t) == IF pc[t] \in {"lock_new", "try_new"} THEN 1 ELSE 0

\* C13 as stated: in every reachable state the depth of the primitive equals
\* the number of live guards, all of which belong to the owning thread.
DepthEqualsLiveGuards ==
    /\ \A t \in Threads : t # owner => LiveGuards(t) = 0
    /\ owner = NoThread => depth = 0
    /\ owner # NoThread => depth = LiveGuards(owner)

\* C13, amended: the depth equals the number of live guards plus one for an
\* acquisition in flight (the owner has acquired the primitive inside
\* lock()/try_lock() and has not built the guard yet); all of them belong to
\* the owner.  Each acquiring step raises the depth by exactly 1, each drop
\* lowers it by exactly 1, only the owner releases, the depth is never below 0,
\* and the primitive is free exactly when the depth is 0.
DepthAccounting ==
    /\ [](/\ \A t \in Threads : t # owner => LiveGuards(t) + InFlight(t) = 0
          /\ depth >= 0
          /\ (owner = NoThread) <=> (depth = 0)
          /\ owner # NoThread => depth = LiveGuards(owner) + InFlight(owner))
    /\ [][\A t \in Threads :
            /\ (Leaves(t, "lock") \/ (Leaves(t, "try") /\ pc'[t] = "try_new")) =>
                  depth' = depth + 1 /\ owner' = t
            /\ Acquires(t) =>
                  /\ UNCHANGED <<owner, depth>>
                  /\ LiveGuards(t)' = LiveGuards(t) + 1
            /\ Leaves(t, "drop_unlock") =>
                  /\ owner = t
                  /\ depth' = depth - 1
                  /\ LiveGuards(t)' = LiveGuards(t) - 1
                  /\ owner' = IF depth' = 0 THEN NoThread ELSE t
            /\ (owner = t /\ owner' # t) => Leaves(t, "drop_unlock")
       ]_vars

\* a thread that holds one guard has re-acquired the primitive inside lock() and
\* has not built the second guard yet: depth 2, one live guard
DepthAccountingWitness ==
    \E t \in Threads :
        /\ pc[t] = "lock_new"
        /\ Len(guards[t]) = 1
        /\ owner = t /\ depth = 2

\* C14: while a thread A has a live guard, whatever nested acquisitions and
\* drops A makes (depth 2 -> 1 -> 2 ...), a thread B waiting in lock() cannot
\* take its step; B leaves the wait only when no other thread has a guard or an
\* acquisition in flight; and the value changes only by a write of the owner
\* through a live guard while no other thread has acquired, so B reads the
\* value after all of A's writes and never an intermediate one.
BlockedUntilOuterDrop ==
    /\ [](\A a, b \in Threads :
            (a # b /\ LiveGuards(a) >= 1 /\ pc[b] = "lock") =>
                ~ENABLED LockInner(b))
    /\ [][/\ \A b \in Threads :
                Leaves(b, "lock") =>
                    \A a \in Threads :
                        a # b => LiveGuards(a) + InFlight(a) = 0
          /\ (data' # data) =>
                /\ owner # NoThread
                /\ pc[owner] = "idle"
                /\ Len(guards[owner]) >= 1
                /\ \A b \in Threads :
                      b # owner => LiveGuards(b) + InFlight(b) = 0
       ]_vars

\* thread b waits in lock() while thread a, holding its outer guard, finishes
\* the drop of a nested guard (depth 2 -> 1)
BlockedUntilOuterDropWitness ==
    \E a, b \in Threads :
        /\ a # b
        /\ pc[b] = "lock"
        /\ pc[a] = "drop_unlock" /\ owner = a /\ depth = 2
        /\ Len(guards[a]) = 1

\* C15: no lock operation changes the protected value.  Every step that
\* changes anything but the value (a step of lock(), try_lock(), a guard's drop,
\* poisoning, Debug formatting, a panic) leaves the value as it is; the value
\* changes only by a write through a live guard of the owner, so what a guard
\* reads, the guard inside a Poisoned error included, is the last value written.
ValueOnlyWritten ==
    [][/\ (<<owner, depth, failed, pc, ctx, guards, self, panicking, ret>>' #
           <<owner, depth, failed, pc, ctx, guards, self, panicking, ret>>) =>
                data' = data
       /\ (data' # data) =>
            \E t \in Threads :
                /\ owner = t
                /\ pc[t] = "idle"
                /\ Len(guards[t]) >= 1
      ]_vars

\* a thread that panicked holding a guard is gone; another thread holds the
\* guard it got inside Poisoned and reads Answer's 42 through it
ValueOnlyWrittenWitness ==
    \E t, u \in Threads :
        /\ pc[u] = "dead" /\ heldAtPanic[u]
        /\ pc[t] = "idle" /\ ret[t] = "Poisoned"
        /\ Len(guards[t]) >= 1
        /\ guards[t][Len(guards[t])].wrap = "Poisoned"
        /\ data = 42

\* thread t starts the drop of one of its guards
StartsDrop(t) == pc[t] \in {"idle", "fmt_write"} /\ pc'[t] = "drop_done"

\* C16 as stated: within one thread the guards are released in the reverse
\* order of their acquisition; the guard whose drop starts is always the
\* youngest live guard of its thread.
LifoRelease ==
    [][\A t \in Threads :
        StartsDrop(t) =>
            /\ self'[t] = <<guards[t][Len(guards[t])]>>
            /\ guards'[t] = SubSeq(guards[t], 1, Len(guards[t]) - 1)
      ]_vars

\* C16, amended: the guards of a thread may be dropped in any order.  The drop
\* that starts takes one of the thread's live guards, not necessarily the
\* youngest, and leaves the others alive; whatever the order, the end of a drop
\* lowers the depth by one, and the primitive is released when the drop of the
\* thread's last live guard ends, not before.
AnyOrderRelease ==
    [][\A t \in Threads :
        /\ StartsDrop(t) =>
              /\ \E i \in 1..Len(guards[t]) :
                    /\ self'[t] = <<guards[t][i]>>
                    /\ Len(guards'[t]) = Len(guards[t]) - 1
                    /\ \A j \in 1..Len(guards'[t]) :
                          guards'[t][j] = guards[t][IF j < i THEN j ELSE j + 1]
              /\ UNCHANGED <<owner, depth>>
        /\ Leaves(t, "drop_unlock") =>
              /\ depth' = depth - 1
              /\ (owner' = NoThread) <=> (Len(guards[t]) = 0)
              /\ (owner' = t) <=> (Len(guards[t]) >= 1)
      ]_vars

\* a thread has dropped its outermost guard and still holds the guard it
\* acquired after it, and with it the lock
AnyOrderReleaseWitness ==
    \E t \in Threads :
        /\ pc[t] = "idle"
        /\ Len(guards[t]) = 1 /\ guards[t][1].nth = 2
        /\ owner = t /\ depth = 1

====
